---- MODULE Spec2Model ----
(***************************************************************************)
(* Model of pilot/helpers/agents/CodeMonkey.py: the per-file change        *)
(* workflow (implement_code_changes), the hunk review loop (review_change) *)
(* and the text algorithms under it (get_diff_hunks, apply_diff,           *)
(* _apply_patch).                                                          *)
(*                                                                         *)
(* A Python str is a sequence of one-character strings; a list of lines is *)
(* a sequence of such sequences.  Python's 0-based half-open slices x[i:j] *)
(* are written Slice(x, i, j).                                             *)
(***************************************************************************)
EXTENDS Integers, Sequences, FiniteSets, TLC

NL == "\n"
CR == "\r"

\* the characters str.splitlines ends a line at; "\r\n" is one line end.
\* (Python's other line boundaries, \v \f \x1c \x1d \x1e \x85 \u2028 \u2029,
\* act as "\r" on its own does.)
LineBreaks == {NL, CR}

Min(S) == CHOOSE x \in S : \A y \in S : x <= y
Max(S) == CHOOSE x \in S : \A y \in S : x >= y
Min2(x, y) == IF x <= y THEN x ELSE y
Max2(x, y) == IF x >= y THEN x ELSE y

\* x[i:j] of Python, for 0 <= i; an index past the end is clipped
Slice(x, i, j) == SubSeq(x, i + 1, Min2(j, Len(x)))

\* x[i:] of Python
SliceFrom(x, i) == SubSeq(x, i + 1, Len(x))

\* "".join(parts)
RECURSIVE Concat(_)
Concat(parts) ==
    IF parts = <<>> THEN <<>> ELSE Head(parts) \o Concat(Tail(parts))

\* sep.join(parts)
RECURSIVE Join(_, _)
Join(sep, parts) ==
    IF parts = <<>> THEN <<>>
    ELSE IF Len(parts) = 1 THEN parts[1]
    ELSE parts[1] \o sep \o Join(sep, Tail(parts))

\* s.startswith(p)
StartsWith(s, p) == Len(s) >= Len(p) /\ SubSeq(s, 1, Len(p)) = p

\* the position of the last character of the line end that starts at b
LineEndAt(s, b) ==
    IF s[b] = CR /\ b < Len(s) /\ s[b + 1] = NL THEN b + 1 ELSE b

\* str.splitlines(keepends=True): a line ends after each "\n", "\r" or
\* "\r\n"; a last line without a line end is kept as it is
RECURSIVE splitlines_keepends(_)
splitlines_keepends(s) ==
    IF s = <<>> THEN <<>>
    ELSE LET brk == {i \in 1..Len(s) : s[i] \in LineBreaks}
             e   == IF brk = {} THEN Len(s) ELSE LineEndAt(s, Min(brk))
         IN  <<SubSeq(s, 1, e)>> \o splitlines_keepends(SubSeq(s, e + 1, Len(s)))

\* one line without its line end
StripEol(line) ==
    IF Len(line) >= 2 /\ SubSeq(line, Len(line) - 1, Len(line)) = <<CR, NL>>
    THEN SubSeq(line, 1, Len(line) - 2)
    ELSE IF line # <<>> /\ line[Len(line)] \in LineBreaks
    THEN SubSeq(line, 1, Len(line) - 1) ELSE line

\* str.splitlines(): the same lines without their line ends
splitlines(s) ==
    LET ls == splitlines_keepends(s) IN [i \in 1..Len(ls) |-> StripEol(ls[i])]

DigitChars == <<"0", "1", "2", "3", "4", "5", "6", "7", "8", "9">>
IsDigit(c) == \E d \in 1..10 : DigitChars[d] = c
DigitVal(c) == (CHOOSE d \in 1..10 : DigitChars[d] = c) - 1

\* str(n) / '{}'.format(n) for n >= 0
RECURSIVE IntToStr(_)
IntToStr(n) ==
    IF n < 10 THEN <<DigitChars[n + 1]>>
    ELSE IntToStr(n \div 10) \o <<DigitChars[(n % 10) + 1]>>

\* int(s) for a non-empty run of digits
RECURSIVE StrToInt(_)
StrToInt(s) ==
    IF s = <<>> THEN 0
    ELSE 10 * StrToInt(SubSeq(s, 1, Len(s) - 1)) + DigitVal(s[Len(s)])

(***************************************************************************)
(* difflib.unified_diff as get_diff_hunks calls it (n = 3, lineterm "\n"). *)
(***************************************************************************)
CONTEXT_LINES == 3

\* length of the common run a[i:], b[j:] inside a[..ahi], b[..bhi] (0-based)
RECURSIVE MatchLen(_, _, _, _, _, _)
MatchLen(a, b, i, j, ahi, bhi) ==
    IF i < ahi /\ j < bhi /\ a[i + 1] = b[j + 1]
    THEN 1 + MatchLen(a, b, i + 1, j + 1, ahi, bhi) ELSE 0

\* SequenceMatcher.find_longest_match: the longest block, of those the one
\* starting earliest in a, of those the one starting earliest in b
find_longest_match(a, b, alo, ahi, blo, bhi) ==
    LET cand == {p \in (alo..(ahi - 1)) \X (blo..(bhi - 1)) :
                    a[p[1] + 1] = b[p[2] + 1]}
    IN  IF cand = {} THEN [i |-> alo, j |-> blo, k |-> 0]
        ELSE LET len(p) == MatchLen(a, b, p[1], p[2], ahi, bhi)
                 best   == Max({len(p) : p \in cand})
                 longs  == {p \in cand : len(p) = best}
                 bi     == Min({p[1] : p \in longs})
                 bj     == Min({p[2] : p \in {q \in longs : q[1] = bi}})
             IN  [i |-> bi, j |-> bj, k |-> best]

\* SequenceMatcher.get_matching_blocks without the closing sentinel: the
\* longest block m, the blocks to its left and the blocks to its right
RECURSIVE matching_blocks(_, _, _, _, _, _)
BlocksAround(a, b, alo, ahi, blo, bhi, m) ==
    IF m.k = 0 THEN <<>>
    ELSE matching_blocks(a, b, alo, m.i, blo, m.j)
         \o <<m>>
         \o matching_blocks(a, b, m.i + m.k, ahi, m.j + m.k, bhi)

matching_blocks(a, b, alo, ahi, blo, bhi) ==
    IF alo >= ahi \/ blo >= bhi THEN <<>>
    ELSE BlocksAround(a, b, alo, ahi, blo, bhi,
                      find_longest_match(a, b, alo, ahi, blo, bhi))

Opcode(tag, i1, i2, j1, j2) ==
    [tag |-> tag, i1 |-> i1, i2 |-> i2, j1 |-> j1, j2 |-> j2]

\* SequenceMatcher.get_opcodes: walk the blocks (sentinel last)
RECURSIVE OpcodesFrom(_, _, _)
OpcodesFrom(blocks, i, j) ==
    IF blocks = <<>> THEN <<>>
    ELSE LET m   == Head(blocks)
             tag == IF i < m.i /\ j < m.j THEN "replace"
                    ELSE IF i < m.i THEN "delete"
                    ELSE IF j < m.j THEN "insert"
                    ELSE ""
             chg == IF tag = "" THEN <<>> ELSE <<Opcode(tag, i, m.i, j, m.j)>>
             eq  == IF m.k = 0 THEN <<>>
                    ELSE <<Opcode("equal", m.i, m.i + m.k, m.j, m.j + m.k)>>
         IN  chg \o eq \o OpcodesFrom(Tail(blocks), m.i + m.k, m.j + m.k)

get_opcodes(a, b) ==
    OpcodesFrom(matching_blocks(a, b, 0, Len(a), 0, Len(b))
                \o <<[i |-> Len(a), j |-> Len(b), k |-> 0]>>, 0, 0)

\* the loop of SequenceMatcher.get_grouped_opcodes; the result is
\* <<groups yielded so far, group being built>>
RECURSIVE GroupLoop(_, _, _)
GroupLoop(codes, groups, group) ==
    IF codes = <<>> THEN <<groups, group>>
    ELSE LET c == Head(codes)
             n == CONTEXT_LINES
         IN  IF c.tag = "equal" /\ c.i2 - c.i1 > n + n
             THEN GroupLoop(Tail(codes),
                      Append(groups,
                             Append(group, Opcode("equal", c.i1, Min2(c.i2, c.i1 + n),
                                                  c.j1, Min2(c.j2, c.j1 + n)))),
                      <<Opcode("equal", Max2(c.i1, c.i2 - n), c.i2,
                               Max2(c.j1, c.j2 - n), c.j2)>>)
             ELSE GroupLoop(Tail(codes), groups, Append(group, c))

\* codes, or the one dummy opcode when there is none
CodesOrDummy(codes) ==
    IF codes = <<>> THEN <<Opcode("equal", 0, 1, 0, 1)>> ELSE codes

\* a leading equal opcode keeps its last CONTEXT_LINES lines only
TrimFirst(codes) ==
    IF codes[1].tag = "equal"
    THEN [codes EXCEPT ![1] =
             Opcode("equal", Max2(@.i1, @.i2 - CONTEXT_LINES), @.i2,
                    Max2(@.j1, @.j2 - CONTEXT_LINES), @.j2)]
    ELSE codes

\* a trailing equal opcode keeps its first CONTEXT_LINES lines only
TrimLast(codes) ==
    IF codes[Len(codes)].tag = "equal"
    THEN [codes EXCEPT ![Len(codes)] =
             Opcode("equal", @.i1, Min2(@.i2, @.i1 + CONTEXT_LINES),
                    @.j1, Min2(@.j2, @.j1 + CONTEXT_LINES))]
    ELSE codes

\* the last group is yielded unless it is empty or one equal opcode
YieldLast(groups, group) ==
    IF group # <<>> /\ ~(Len(group) = 1 /\ group[1].tag = "equal")
    THEN Append(groups, group) ELSE groups

YieldAll(r) == YieldLast(r[1], r[2])

get_grouped_opcodes(a, b) ==
    YieldAll(GroupLoop(TrimLast(TrimFirst(CodesOrDummy(get_opcodes(a, b)))),
                       <<>>, <<>>))

\* difflib._format_range_unified
format_range_unified(start, stop) ==
    LET beginning == start + 1
        length    == stop - start
    IN  IF length = 1 THEN IntToStr(beginning)
        ELSE IntToStr(IF length = 0 THEN beginning - 1 ELSE beginning)
             \o <<",">> \o IntToStr(length)

\* every line of lines with the one-character prefix in front
Prefixed(prefix, lines) == [i \in 1..Len(lines) |-> <<prefix>> \o lines[i]]

\* the diff lines of one opcode
OpcodeLines(a, b, c) ==
    IF c.tag = "equal" THEN Prefixed(" ", Slice(a, c.i1, c.i2))
    ELSE (IF c.tag \in {"replace", "delete"}
          THEN Prefixed("-", Slice(a, c.i1, c.i2)) ELSE <<>>)
         \o
         (IF c.tag \in {"replace", "insert"}
          THEN Prefixed("+", Slice(b, c.j1, c.j2)) ELSE <<>>)

RECURSIVE GroupBody(_, _, _)
GroupBody(a, b, group) ==
    IF group = <<>> THEN <<>>
    ELSE OpcodeLines(a, b, Head(group)) \o GroupBody(a, b, Tail(group))

\* the header line and the body lines of one group
GroupLines(a, b, group) ==
    LET first == group[1]
        last  == group[Len(group)]
    IN  << <<"@", "@", " ", "-">> \o format_range_unified(first.i1, last.i2)
           \o <<" ", "+">> \o format_range_unified(first.j1, last.j2)
           \o <<" ", "@", "@", NL>> >>
        \o GroupBody(a, b, group)

RECURSIVE AllGroupLines(_, _, _)
AllGroupLines(a, b, groups) ==
    IF groups = <<>> THEN <<>>
    ELSE GroupLines(a, b, Head(groups)) \o AllGroupLines(a, b, Tail(groups))

\* the two file-name lines, then the lines of every group; nothing at all
\* when there is no group
DiffLines(a, b, fromfile, tofile, groups) ==
    IF groups = <<>> THEN <<>>
    ELSE << <<"-", "-", "-", " ">> \o fromfile \o <<NL>>,
            <<"+", "+", "+", " ">> \o tofile \o <<NL>> >>
         \o AllGroupLines(a, b, groups)

\* list(unified_diff(a, b, fromfile, tofile))
unified_diff(a, b, fromfile, tofile) ==
    DiffLines(a, b, fromfile, tofile, get_grouped_opcodes(a, b))

(***************************************************************************)
(* get_diff_hunks                                                          *)
(***************************************************************************)
\* the value of re.MULTILINE, which get_diff_hunks passes to re.split in the
\* place of maxsplit
RE_MULTILINE == 8

\* the pieces of s between occurrences of the literal sep, left to right,
\* making at most remaining splits
RECURSIVE SplitAt(_, _, _)
SplitAt(sep, s, remaining) ==
    LET hits == {i \in 1..(Len(s) - Len(sep) + 1) :
                    SubSeq(s, i, i + Len(sep) - 1) = sep}
    IN  IF remaining = 0 \/ hits = {} THEN <<s>>
        ELSE LET h == Min(hits)
             IN  <<SubSeq(s, 1, h - 1)>>
                 \o SplitAt(sep, SubSeq(s, h + Len(sep), Len(s)), remaining - 1)

\* re.split(sep, s, maxsplit) for a literal pattern; maxsplit = 0 is no limit
re_split(sep, s, maxsplit) ==
    SplitAt(sep, s, IF maxsplit = 0 THEN Len(s) + 1 ELSE maxsplit)

\* one element of the result: the piece with "@@" put back in front of its
\* first line, its lines joined by "\n"
HunkText(h) ==
    LET txt == splitlines(h)
    IN  Join(<<NL>>, [txt EXCEPT ![1] = <<"@", "@">> \o txt[1]])

\* the loop over the pieces: the first one (the file names) is skipped
HunkTexts(pieces) ==
    [k \in 1..(Len(pieces) - 1) |-> HunkText(pieces[k + 1])]

get_diff_hunks(fname, old_content, new) ==
    HunkTexts(re_split(<<NL, "@", "@">>,
                       Concat(unified_diff(splitlines_keepends(old_content),
                                           splitlines_keepends(new),
                                           <<"o", "l", "d", "_">> \o fname,
                                           <<"t", "o", "_">> \o fname)),
                       RE_MULTILINE))

(***************************************************************************)
(* _apply_patch                                                            *)
(***************************************************************************)
\* the number of digits of s from position p (1-based) on
RECURSIVE DigitRun(_, _)
DigitRun(s, p) ==
    IF p <= Len(s) /\ IsDigit(s[p]) THEN 1 + DigitRun(s, p + 1) ELSE 0

None == <<"<None>">>

\* "(\d+),?(\d+)?" at position p: the two groups and the position after them
RangeMatch(s, p) ==
    LET n1    == DigitRun(s, p)
        q     == p + n1
        comma == q <= Len(s) /\ s[q] = ","
        r     == IF comma THEN q + 1 ELSE q
        n2    == DigitRun(s, r)
    IN  [ok   |-> n1 >= 1,
         g1   |-> SubSeq(s, p, q - 1),
         g2   |-> IF n2 >= 1 THEN SubSeq(s, r, r + n2 - 1) ELSE None,
         next |-> r + n2]

\* the end of the header pattern, after both ranges o and n
HeaderTail(line, o, n) ==
    IF ~n.ok \/ ~StartsWith(SliceFrom(line, n.next - 1), <<" ", "@", "@">>)
    THEN [ok |-> FALSE]
    ELSE [ok |-> TRUE, g1 |-> o.g1, g2 |-> o.g2, g3 |-> n.g1, g4 |-> n.g2]

\* the header pattern after the first range o
HeaderNewSide(line, o) ==
    IF ~o.ok \/ ~StartsWith(SliceFrom(line, o.next - 1), <<" ", "+">>)
    THEN [ok |-> FALSE]
    ELSE HeaderTail(line, o, RangeMatch(line, o.next + 2))

\* PATCH_HEADER_PATTERN.match(line): ^@@ -(\d+),?(\d+)? \+(\d+),?(\d+)? @@
PATCH_HEADER_PATTERN(line) ==
    IF ~StartsWith(line, <<"@", "@", " ", "-">>) THEN [ok |-> FALSE]
    ELSE HeaderNewSide(line, RangeMatch(line, 5))

\* the local variables of one _apply_patch call; status is "run" while the
\* hunk loop runs, "ok" at the return, "error" when an exception was raised,
\* "idle" before the call
ApState(index_original, start_line, updated_text, status) ==
    [index_original |-> index_original, start_line |-> start_line,
     updated_text |-> updated_text, status |-> status]

\* the loop that skips the "---" / "+++" lines
RECURSIVE SkipHeaderLines(_, _)
SkipHeaderLines(patch_lines, index_original) ==
    IF index_original < Len(patch_lines)
       /\ (StartsWith(patch_lines[index_original + 1], <<"-", "-", "-">>)
           \/ StartsWith(patch_lines[index_original + 1], <<"+", "+", "+">>))
    THEN SkipHeaderLines(patch_lines, index_original + 1)
    ELSE index_original

ApStartMutNoSkip(patch_lines) ==
    ApState(0, 0, <<>>, "run")

\* the state on entry to the hunk loop
ApStart(patch_lines) ==
    ApState(SkipHeaderLines(patch_lines, 0), 0, <<>>, "run")

\* the 0-based line the hunk header in m points at
HeaderLineNumber(m, rev) ==
    LET num == IF rev THEN m.g3 ELSE m.g1
        len == IF rev THEN m.g4 ELSE m.g2
    IN  StrToInt(num) - 1 + (IF len = <<"0">> THEN 1 ELSE 0)

\* the line-number test of the hunk loop: TRUE when the hunk is refused
BadLineNumberMutNoRegressCheck(start_line, line_number, n_original) ==
    line_number > n_original

BadLineNumber(start_line, line_number, n_original) ==
    start_line > line_number \/ line_number > n_original

\* the head of one pass of the hunk loop: match the header, check the line
\* number, copy the original lines before the hunk
ApHeaderAt(original_lines, st, line_number) ==
    IF BadLineNumber(st.start_line, line_number, Len(original_lines))
    THEN [st EXCEPT !.status = "error"]
    ELSE ApState(st.index_original + 1, line_number,
                 st.updated_text
                 \o Concat(Slice(original_lines, st.start_line, line_number)),
                 "run")

ApHeaderMatched(original_lines, rev, st, m) ==
    IF ~m.ok THEN [st EXCEPT !.status = "error"]
    ELSE ApHeaderAt(original_lines, st, HeaderLineNumber(m, rev))

ApHeader(original_lines, patch_lines, rev, st) ==
    ApHeaderMatched(original_lines, rev, st,
                    PATCH_HEADER_PATTERN(patch_lines[st.index_original + 1]))

\* the condition of the inner loop
ApInBody(patch_lines, st) ==
    /\ st.index_original < Len(patch_lines)
    /\ patch_lines[st.index_original + 1][1] # "@"

\* one pass of the inner loop
ApBodyLine(patch_lines, rev, st) ==
    LET line_sign == IF rev THEN "-" ELSE "+"
        k         == st.index_original
        marked    == k + 1 < Len(patch_lines) /\ patch_lines[k + 2][1] = "\\"
        line      == patch_lines[k + 1]
        line_content == IF marked THEN SubSeq(line, 1, Len(line) - 1) ELSE line
        emit      == line_content # <<>>
                     /\ (line_content[1] = line_sign \/ line_content[1] = " ")
        advance   == line_content # <<>> /\ line_content[1] # line_sign
    IN  ApState(IF marked THEN k + 2 ELSE k + 1,
                st.start_line + (IF advance THEN 1 ELSE 0),
                IF emit THEN st.updated_text \o Tail(line_content)
                ELSE st.updated_text,
                "run")

\* the inner loop
RECURSIVE ApBody(_, _, _)
ApBody(patch_lines, rev, st) ==
    IF ApInBody(patch_lines, st)
    THEN ApBody(patch_lines, rev, ApBodyLine(patch_lines, rev, st))
    ELSE st

\* one pass of the hunk loop
ApHunkBody(patch_lines, rev, h) ==
    IF h.status = "error" THEN h ELSE ApBody(patch_lines, rev, h)

ApHunk(original_lines, patch_lines, rev, st) ==
    ApHunkBody(patch_lines, rev, ApHeader(original_lines, patch_lines, rev, st))

\* the return after the hunk loop: copy the rest of the original
ApFinishMutDropRest(original_lines, st) ==
    ApState(st.index_original, st.start_line, st.updated_text, "ok")

ApFinish(original_lines, st) ==
    ApState(st.index_original, st.start_line,
            st.updated_text \o Concat(SliceFrom(original_lines, st.start_line)),
            "ok")

RECURSIVE ApRun(_, _, _, _)
ApRun(original_lines, patch_lines, rev, st) ==
    IF st.status # "run" THEN st
    ELSE IF st.index_original < Len(patch_lines)
    THEN ApRun(original_lines, patch_lines, rev,
               ApHunk(original_lines, patch_lines, rev, st))
    ELSE ApFinish(original_lines, st)

\* _apply_patch(original, patch, revert): the final state of the call
ApCall(original_lines, patch_lines, rev) ==
    ApRun(original_lines, patch_lines, rev, ApStart(patch_lines))

apply_patch(original, patch, rev) ==
    ApCall(splitlines_keepends(original), splitlines_keepends(patch), rev)

(***************************************************************************)
(* apply_diff                                                              *)
(***************************************************************************)
\* the patch document apply_diff builds
DiffDocument(fname, hs) ==
    Join(<<NL>>, << <<"-", "-", "-", " ">> \o fname,
                    <<"+", "+", "+", " ">> \o fname >> \o hs) \o <<NL>>

\* apply_diff: what it returns, and whether it recorded "patch-apply-error"
ApplyDiffResult(r, fallback) ==
    IF r.status = "error"
    THEN [content |-> fallback, patch_apply_error |-> TRUE]
    ELSE [content |-> r.updated_text, patch_apply_error |-> FALSE]

apply_diff(fname, old_content, hs, fallback) ==
    ApplyDiffResult(apply_patch(old_content, DiffDocument(fname, hs), FALSE),
                    fallback)

(***************************************************************************)
(* review_change: reconciling one reviewer response                        *)
(***************************************************************************)
MAX_REVIEW_RETRIES == 3

\* convo.remove_last_x_messages(x) on a conversation of n_messages messages
remove_last_x_messagesMutInitialPair(n_messages, x) == n_messages - 2

remove_last_x_messages(n_messages, x) == n_messages - x

\* str.lower() on the decision strings the reviewer is given to send
LowerMutIdentity(d) == d

Lower(d) ==
    CASE d = "IGNORE" -> "ignore"
      [] d = "Apply"  -> "apply"
      [] OTHER        -> d

\* the set the decision loop builds for decision word d (0-based indices)
ReviewIds(llm_response, d) ==
    {llm_response[k].number - 1 :
        k \in {n \in 1..Len(llm_response) : Lower(llm_response[n].decision) = d}}

\* n_review_hunks
ReviewCoverage(llm_response) ==
    Cardinality(ReviewIds(llm_response, "apply") \cup ReviewIds(llm_response, "ignore"))

\* the decision words the loop takes up, in any case of letters
SaysApplyOrIgnore(d) ==
    d \in {"apply", "Apply", "APPLY", "ignore", "Ignore", "IGNORE"}

\* the reply gives each hunk number 1..n exactly one decision of apply or
\* ignore, and no such decision to any other number
DecidesEachHunkOnce(llm_response, n) ==
    LET decided == {k \in 1..Len(llm_response) :
                       SaysApplyOrIgnore(llm_response[k].decision)}
    IN  /\ \A k \in decided : llm_response[k].number \in 1..n
        /\ \A m \in 1..n :
              Cardinality({k \in decided : llm_response[k].number = m}) = 1

\* [h for i, h in enumerate(hunks) if i in ids]
RECURSIVE PickFrom(_, _, _)
PickFrom(hs, ids, i) ==
    IF i >= Len(hs) THEN <<>>
    ELSE (IF i \in ids THEN <<hs[i + 1]>> ELSE <<>>) \o PickFrom(hs, ids, i + 1)

HunksToApply(hs, ids) == PickFrom(hs, ids, 0)

\* the return through apply_diff
PartialResult(r) ==
    [content |-> r.content, path |-> "partial", apply_diff_calls |-> 1,
     events |-> IF r.patch_apply_error THEN <<"patch-apply-error">> ELSE <<>>]

\* the part of review_change after the retry loop: what it returns, by which
\* branch, and the diagnostic events it records
ReviewReturnMutReturnOld(fname, old_content, new, hs, hunks_to_apply) ==
    IF Len(hunks_to_apply) = Len(hs)
    THEN [content |-> new, path |-> "all_apply", apply_diff_calls |-> 0,
          events |-> <<>>]
    ELSE IF Len(hunks_to_apply) = 0
    THEN [content |-> old_content, path |-> "all_ignore", apply_diff_calls |-> 0,
          events |-> <<>>]
    ELSE PartialResult(apply_diff(fname, old_content, hunks_to_apply, new))

ReviewReturnMutAlwaysPatch(fname, old_content, new, hs, hunks_to_apply) ==
    IF Len(hunks_to_apply) = 0
    THEN [content |-> new, path |-> "all_ignore", apply_diff_calls |-> 0,
          events |-> <<"modify-file-review-reject-all">>]
    ELSE PartialResult(apply_diff(fname, old_content, hunks_to_apply, new))

ReviewReturn(fname, old_content, new, hs, hunks_to_apply) ==
    IF Len(hunks_to_apply) = Len(hs)
    THEN [content |-> new, path |-> "all_apply", apply_diff_calls |-> 0,
          events |-> <<>>]
    ELSE IF Len(hunks_to_apply) = 0
    THEN [content |-> new, path |-> "all_ignore", apply_diff_calls |-> 0,
          events |-> <<"modify-file-review-reject-all">>]
    ELSE PartialResult(apply_diff(fname, old_content, hunks_to_apply, new))

ReviewResult(fname, old_content, new, hs, ids) ==
    ReviewReturn(fname, old_content, new, hs, HunksToApply(hs, ids))

(***************************************************************************)
(* implement_code_changes: helpers                                         *)
(***************************************************************************)
\* the value of file content read as bytes
Bytes == <<"<bytes>">>

BINARY_PLACEHOLDER == <<"<binary file, content omitted>">>

\* Python truthiness of a str-or-None value
Truthy(c) == c # None /\ c # <<>>

\* the test guarding format, review and the update of the file
HasChangesMutNoTruthy(c, original) == c # original

HasChanges(c, original) == Truthy(c) /\ c # original

\* os.path.splitext(file_name)[1]
splitext(name) ==
    LET seps == {k \in 1..Len(name) : name[k] = "/"}
        base == IF seps = {} THEN 1 ELSE Max(seps) + 1
        dots == {k \in (base + 1)..Len(name) : name[k] = "."}
    IN  IF dots = {} THEN <<>> ELSE SubSeq(name, Max(dots), Len(name))

\* the keys of FORMATTERS
FORMATTERS ==
    { <<".", "j", "s">>, <<".", "j", "s", "o", "n">>, <<".", "t", "s">>,
      <<".", "j", "s", "x">>, <<".", "v", "u", "e">>, <<".", "t", "s", "x">>,
      <<".", "c", "s", "s">>, <<".", "s", "c", "s", "s">>, <<".", "p", "y">>,
      <<".", "g", "o">> }

HasFormatter(name) == splitext(name) \in FORMATTERS

Whitespace == {" ", NL, CR}
TagChars == {"p", "y", "a", "b", "c"}

\* the number of characters of s from position p on that are in set
RECURSIVE RunOf(_, _, _)
RunOf(s, p, set) ==
    IF p <= Len(s) /\ s[p] \in set THEN 1 + RunOf(s, p + 1, set) ELSE 0

\* the backquote character
BQ == "BQ"

FENCE == <<BQ, BQ, BQ>>

\* start_pattern.sub("", s): leading whitespace, the fence, an optional
\* language tag and the line end are removed
StripStartFence(s) ==
    LET w == RunOf(s, 1, Whitespace)
        f == w + 1
        t == RunOf(s, f + 3, TagChars)
        e == f + 3 + t
    IN  IF SubSeq(s, f, Min2(f + 2, Len(s))) = FENCE /\ e <= Len(s) /\ s[e] = NL
        THEN SubSeq(s, e + 1, Len(s)) ELSE s

\* end_pattern.sub("", s): a line end, the fence and trailing whitespace at
\* the end of the text are removed
StripEndFence(s) ==
    LET hits == {k \in 1..(Len(s) - 3) :
                    /\ SubSeq(s, k, k + 3) = <<NL>> \o FENCE
                    /\ k + 3 + RunOf(s, k + 4, Whitespace) = Len(s)}
    IN  IF hits = {} THEN s ELSE SubSeq(s, 1, Min(hits) - 1)

\* what replace_complete_file returns for the raw reply
StripFences(llm_response) == StripEndFence(StripStartFence(llm_response))

\* len(content.splitlines()) - len(file_content.splitlines())
DeltaLines(c, original) ==
    Len(splitlines(c)) - Len(splitlines(original))

(***************************************************************************)
(* Inputs                                                                  *)
(***************************************************************************)
MaxLines == 2
GapLines == 7
MaxStart == 3
MaxDecisions == 2
MaxNumber == 3

LineOf(c) == <<c, NL>>
ChangedLines == {LineOf("a"), LineOf("b")}

\* the lines ls with GapLines unchanged lines between neighbours, so that
\* every changed line gets a hunk of its own
RECURSIVE Spread(_)
Spread(ls) ==
    IF Len(ls) <= 1 THEN ls
    ELSE <<Head(ls)>> \o [k \in 1..GapLines |-> LineOf("c")] \o Spread(Tail(ls))

\* a content without the line end of its last line
ChopEol(c) == SubSeq(c, 1, Len(c) - 1)

WithChopped(cs) == cs \cup {ChopEol(c) : c \in cs \ {<<>>}}

LineLists == UNION {[1..k -> ChangedLines] : k \in 0..MaxLines}

\* short contents, with and without a line end at the end of the file
BaseContents == WithChopped({Concat(ls) : ls \in LineLists})

\* long contents, whose changes fall into separate hunks
SpreadContents ==
    WithChopped({Concat(Spread(ls)) : ls \in {l \in LineLists : Len(l) >= 2}})

ContentPairs == (BaseContents \X BaseContents) \cup (SpreadContents \X SpreadContents)

FilePy == <<"f", ".", "p", "y">>
FileMd == <<"d", "/", "f", ".", "m", "d">>
FileNoExt == <<"f">>
FileNames == {FilePy, FileMd, FileNoExt}

TwoLines(x, y) == Concat(Spread(<<LineOf(x), LineOf(y)>>))

\* contents of the project's files
StoredContents == {LineOf("a"), TwoLines("a", "b")}

\* contents the change generator writes
LlmContents ==
    {<<>>, LineOf("a"), LineOf("b"), <<"b">>}
    \cup {TwoLines(x, y) : x \in {"a", "b"}, y \in {"a", "b"}}
    \cup {Concat(Spread(<<<<"a", CR, NL>>, LineOf("a")>>))}

\* a reply wrapped in a fenced code block
Fenced(c) ==
    FENCE \o <<"p", "y", NL>> \o c
    \o (IF c # <<>> /\ c[Len(c)] = NL THEN <<>> ELSE <<NL>>) \o FENCE

RawReplies == LlmContents \cup {Fenced(c) : c \in LlmContents}

\* what the formatter may print for content c
EnsureEol(c) == IF c # <<>> /\ c[Len(c)] # NL THEN c \o <<NL>> ELSE c
FormatterOutputs(c, original) == {c, EnsureEol(c), original}

Decisions == {"apply", "IGNORE", "skip"}

\* the decision lists the reviewer may send
Responses ==
    UNION {[1..k -> [number : 1..MaxNumber, decision : Decisions]] :
              k \in 0..MaxDecisions}

\* hand-written hunks
LenFields == {-1, 0, 1, 2}
CraftedRange(start, len) ==
    IntToStr(start) \o (IF len < 0 THEN <<>> ELSE <<",">> \o IntToStr(len))
CraftedBodies ==
    { <<>>, << <<"-", "a">> >>, << <<"+", "b">> >>,
      << <<"-", "a">>, <<"-", "a">> >> }
CraftedHunk(start, len, body) ==
    Join(<<NL>>,
         << <<"@", "@", " ", "-">> \o CraftedRange(start, len) \o <<" ", "+">>
            \o CraftedRange(start, len) \o <<" ", "@", "@">> >> \o body)
WellFormedHunks ==
    {CraftedHunk(st, ln, bd) : st \in 0..MaxStart, ln \in LenFields, bd \in CraftedBodies}
BadHeaderHunks ==
    { <<"@", "@", " ", "-", "x", " ", "+", "1", " ", "@", "@">>,
      <<" ", "a">> }
CraftedHunks == WellFormedHunks \cup BadHeaderHunks
CraftedLists ==
    {<<h>> : h \in CraftedHunks} \cup {<<g, h>> : g \in WellFormedHunks, h \in CraftedHunks}
CraftedOriginals == {<<>>, LineOf("a"), LineOf("a") \o LineOf("a")}
CraftedFallback == <<"n", "e", "w", NL>>

\* contents with "\r\n" and "\r" line ends
CRLF(c) == <<c, CR, NL>>
CrShort == {CRLF("a"), CRLF("b"), LineOf("a"), <<"a", CR, "b", NL>>}

\* a file whose every line ends with "\r\n", changed lines x and y far apart
CrlfFile(x, y) ==
    CRLF(x) \o Concat([k \in 1..GapLines |-> CRLF("c")]) \o CRLF(y)

CrLong ==
    {Concat(Spread(<<x, LineOf(y)>>)) : x \in {LineOf("a"), CRLF("a")}, y \in {"a", "b"}}
    \cup {CrlfFile(x, y) : x \in {"a", "b"}, y \in {"a", "b"}}

CrPairs == (CrShort \X CrShort) \cup (CrLong \X CrLong)

(***************************************************************************)
(* State                                                                   *)
(***************************************************************************)
VARIABLES
    pc,                 \* where the call is
    file_name,          \* file_name
    file_content,       \* the original content (old_content in review_change)
    proposed,           \* what replace_complete_file returned
    content,            \* content in implement_code_changes
    new_content,        \* new_content in review_change, fallback in apply_diff
    hunks,              \* hunks in review_change and in apply_diff
    i,                  \* the index of the retry loop
    messages_to_remove,
    ids_to_apply,
    ids_to_ignore,
    messages,           \* the number of messages in convo
    round_trips,        \* send_message calls made by review_change
    all_mismatch,       \* no reply so far had coverage equal to len(hunks)
    review_path,        \* the return of review_change that was taken
    saved,              \* the contents passed to project.save_file
    metrics,            \* the deltas passed to telemetry.inc
    events,             \* the names passed to trace_code_event
    skip_steps,         \* project.skip_steps as read before the update
    selected,           \* the numbers of the hunks of the diff given to apply_diff
    crafted,            \* the hunks given to apply_diff are hand-written
    revert,
    ap,                 \* the locals of the running _apply_patch call
    result,             \* what apply_diff returned
    messages_at_entry,  \* the number of messages in convo when review_change began
    first_reply_exact,  \* the first reply decided every hunk number exactly once
    apply_diff_calls,   \* apply_diff calls made by review_change
    syntax_error        \* the formatter was run and reported a syntax error

vars == <<pc, file_name, file_content, proposed, content, new_content, hunks, i,
          messages_to_remove, ids_to_apply, ids_to_ignore, messages, round_trips,
          all_mismatch, review_path, saved, metrics, events, skip_steps,
          selected, crafted, revert, ap, result, messages_at_entry,
          first_reply_exact, apply_diff_calls, syntax_error>>

reviewLocals == <<hunks, i, messages_to_remove, ids_to_apply, ids_to_ignore,
                  round_trips, all_mismatch, review_path, new_content,
                  messages_at_entry, first_reply_exact, apply_diff_calls>>
patchVars == <<selected, crafted, revert, ap, result>>
outputs == <<saved, metrics, events, skip_steps>>

ApIdle == ApState(0, 0, <<>>, "idle")

(***************************************************************************)
(* implement_code_changes                                                  *)
(***************************************************************************)
Init ==
    /\ pc = "start"
    /\ file_name = <<>>
    /\ file_content = <<>>
    /\ proposed = <<>>
    /\ content = <<>>
    /\ new_content = <<>>
    /\ hunks = <<>>
    /\ i = 0
    /\ messages_to_remove = 0
    /\ ids_to_apply = {}
    /\ ids_to_ignore = {}
    /\ messages \in {0, 2}
    /\ round_trips = 0
    /\ all_mismatch = TRUE
    /\ review_path = "none"
    /\ saved = <<>>
    /\ metrics = <<>>
    /\ events = <<>>
    /\ skip_steps = FALSE
    /\ selected = {}
    /\ crafted = FALSE
    /\ revert = FALSE
    /\ ap = ApIdle
    /\ result = None
    /\ messages_at_entry = 0
    /\ first_reply_exact = FALSE
    /\ apply_diff_calls = 0
    /\ syntax_error = FALSE

\* get_original_file: the content of the matching entry of files as it is,
\* else the content read from storage with bytes replaced, else ""
OriginalContent(where, stored) ==
    IF where = "files" THEN stored
    ELSE IF where = "missing" THEN <<>>
    ELSE IF stored = Bytes THEN BINARY_PLACEHOLDER
    ELSE stored

GetOriginalFile ==
    /\ pc = "start"
    /\ \E name \in FileNames, where \in {"files", "storage", "missing"},
          stored \in StoredContents \cup {Bytes} :
          /\ file_name' = name
          /\ file_content' = OriginalContent(where, stored)
    /\ pc' = "replace"
    /\ UNCHANGED <<proposed, content, messages, reviewLocals, outputs, patchVars,
                   syntax_error>>

\* replace_complete_file: one request and its reply, both removed again
ReplaceCompleteFile ==
    /\ pc = "replace"
    /\ \E llm_response \in RawReplies :
          \E stripped \in {StripFences(llm_response)} :
              /\ content' = stripped
              /\ proposed' = stripped
    /\ messages' = (messages + 2) - 2
    /\ pc' = "format"
    /\ UNCHANGED <<file_name, file_content, reviewLocals, outputs, patchVars,
                   syntax_error>>

\* format_file: None without a formatter for the extension; else the
\* formatter's output, the content itself when it is not installed, or a
\* ValueError when it reports a syntax error
format_fileMutSwallowsError(name, c, outcome, out) ==
    IF ~HasFormatter(name) THEN [raised |-> FALSE, value |-> None]
    ELSE IF outcome = "formatted" THEN [raised |-> FALSE, value |-> out]
    ELSE [raised |-> FALSE, value |-> c]

format_file(name, c, outcome, out) ==
    IF ~HasFormatter(name) THEN [raised |-> FALSE, value |-> None]
    ELSE IF outcome = "formatted" THEN [raised |-> FALSE, value |-> out]
    ELSE IF outcome = "not_installed" THEN [raised |-> FALSE, value |-> c]
    ELSE [raised |-> TRUE, value |-> c]

FormatFile ==
    /\ pc = "format"
    /\ HasChanges(content, file_content)
    /\ \E outcome \in {"formatted", "not_installed", "syntax_error"},
          out \in FormatterOutputs(content, file_content) :
          \E r \in {format_file(file_name, content, outcome, out)} :
              /\ content' = r.value
              /\ pc' = IF r.raised THEN "format_error" ELSE "review"
          /\ syntax_error' = (HasFormatter(file_name) /\ outcome = "syntax_error")
    /\ UNCHANGED <<file_name, file_content, proposed, messages, reviewLocals,
                   outputs, patchVars>>

FormatSkip ==
    /\ pc = "format"
    /\ ~HasChanges(content, file_content)
    /\ pc' = "review"
    /\ UNCHANGED <<file_name, file_content, proposed, content, messages,
                   reviewLocals, outputs, patchVars, syntax_error>>

ReviewSkip ==
    /\ pc = "review"
    /\ ~HasChanges(content, file_content)
    /\ pc' = "update"
    /\ UNCHANGED <<file_name, file_content, proposed, content, messages,
                   reviewLocals, outputs, patchVars, syntax_error>>

\* unified_diff refuses lines that are bytes: the TypeError leaves
\* implement_code_changes
ReviewTypeError ==
    /\ pc = "review"
    /\ HasChanges(content, file_content)
    /\ file_content = Bytes
    /\ pc' = "type_error"
    /\ UNCHANGED <<file_name, file_content, proposed, content, messages,
                   reviewLocals, outputs, patchVars, syntax_error>>

\* review_change up to the first request
ReviewStart ==
    /\ pc = "review"
    /\ HasChanges(content, file_content)
    /\ file_content # Bytes
    /\ hunks' = get_diff_hunks(file_name, file_content, content)
    /\ new_content' = content
    /\ messages' = messages + 2
    /\ messages_to_remove' = 2
    /\ round_trips' = 1
    /\ i' = 0
    /\ all_mismatch' = TRUE
    /\ messages_at_entry' = messages
    /\ pc' = "review_wait"
    /\ UNCHANGED <<file_name, file_content, proposed, content, ids_to_apply,
                   ids_to_ignore, review_path, outputs, patchVars,
                   first_reply_exact, apply_diff_calls, syntax_error>>

\* a reply with coverage equal to len(hunks): the loop is left, the messages
\* of the review are removed and the result is returned
ReviewAccept ==
    /\ pc = "review_wait"
    /\ i < MAX_REVIEW_RETRIES
    /\ \E llm_response \in Responses :
          /\ ReviewCoverage(llm_response) = Len(hunks)
          /\ ids_to_apply' = ReviewIds(llm_response, "apply")
          /\ ids_to_ignore' = ReviewIds(llm_response, "ignore")
          /\ \E r \in {ReviewResult(file_name, file_content, new_content, hunks,
                                    ReviewIds(llm_response, "apply"))} :
                 /\ content' = r.content
                 /\ review_path' = r.path
                 /\ events' = events \o r.events
                 /\ apply_diff_calls' = apply_diff_calls + r.apply_diff_calls
          /\ first_reply_exact' =
                 IF i = 0 THEN DecidesEachHunkOnce(llm_response, Len(hunks))
                 ELSE first_reply_exact
    /\ all_mismatch' = FALSE
    /\ messages' = remove_last_x_messages(messages, messages_to_remove)
    /\ pc' = "update"
    /\ UNCHANGED <<file_name, file_content, proposed, new_content, hunks, i,
                   messages_to_remove, round_trips, saved, metrics, skip_steps,
                   patchVars, messages_at_entry, syntax_error>>

\* a reply with any other coverage: the error message is sent as the next
\* request, and the next pass of the loop starts from empty sets
ReviewRetry ==
    /\ pc = "review_wait"
    /\ i < MAX_REVIEW_RETRIES
    /\ \E llm_response \in Responses :
          /\ ReviewCoverage(llm_response) # Len(hunks)
          /\ first_reply_exact' =
                 IF i = 0 THEN DecidesEachHunkOnce(llm_response, Len(hunks))
                 ELSE first_reply_exact
    /\ ids_to_apply' = {}
    /\ ids_to_ignore' = {}
    /\ messages' = messages + 2
    /\ messages_to_remove' = messages_to_remove + 2
    /\ round_trips' = round_trips + 1
    /\ i' = i + 1
    /\ UNCHANGED <<pc, file_name, file_content, proposed, content, new_content,
                   hunks, all_mismatch, review_path, outputs, patchVars,
                   messages_at_entry, apply_diff_calls, syntax_error>>

\* the loop has run MAX_REVIEW_RETRIES times: the reply to the last request
\* is not looked at
ReviewExhausted ==
    /\ pc = "review_wait"
    /\ i = MAX_REVIEW_RETRIES
    /\ \E llm_response \in Responses :
          all_mismatch' = (all_mismatch /\ ReviewCoverage(llm_response) # Len(hunks))
    /\ messages' = remove_last_x_messages(messages, messages_to_remove)
    /\ content' = new_content
    /\ review_path' = "exhausted"
    /\ pc' = "update"
    /\ UNCHANGED <<file_name, file_content, proposed, new_content, hunks, i,
                   messages_to_remove, ids_to_apply, ids_to_ignore, round_trips,
                   outputs, patchVars, messages_at_entry, first_reply_exact,
                   apply_diff_calls, syntax_error>>

\* the update of the file at the end of implement_code_changes
UpdateFile ==
    /\ pc = "update"
    /\ \E skip \in BOOLEAN :
          /\ skip_steps' = skip
          /\ IF HasChanges(content, file_content)
             THEN /\ metrics' = IF ~skip
                                THEN Append(metrics, DeltaLines(content, file_content))
                                ELSE metrics
                  /\ saved' = Append(saved, content)
             ELSE UNCHANGED <<metrics, saved>>
    /\ pc' = "done"
    /\ UNCHANGED <<file_name, file_content, proposed, content, messages,
                   reviewLocals, events, patchVars, syntax_error>>

Next ==
    \/ GetOriginalFile
    \/ ReplaceCompleteFile
    \/ FormatFile
    \/ FormatSkip
    \/ ReviewSkip
    \/ ReviewTypeError
    \/ ReviewStart
    \/ ReviewAccept
    \/ ReviewRetry
    \/ ReviewExhausted
    \/ UpdateFile

Spec == Init /\ [][Next]_vars

(***************************************************************************)
(* apply_diff on its own, one pass of the hunk loop at a time              *)
(***************************************************************************)
OriginalLines == splitlines_keepends(file_content)
PatchLines == splitlines_keepends(DiffDocument(file_name, hunks))

PatchInit ==
    /\ pc = "apply_diff"
    /\ file_name = FilePy
    /\ \/ \E pair \in ContentPairs \cup CrPairs :
             \E all \in {get_diff_hunks(FilePy, pair[1], pair[2])} :
                 \E S \in SUBSET (1..Len(all)) :
                    /\ file_content = pair[1]
                    /\ new_content = pair[2]
                    /\ selected = S
                    /\ hunks = HunksToApply(all, {k - 1 : k \in S})
                    /\ crafted = FALSE
       \/ /\ file_content \in CraftedOriginals
          /\ new_content = CraftedFallback
          /\ selected = {}
          /\ hunks \in CraftedLists
          /\ crafted = TRUE
    /\ revert = FALSE
    /\ ap = ApIdle
    /\ result = None
    /\ events = <<>>
    /\ proposed = <<>>
    /\ content = <<>>
    /\ i = 0
    /\ messages_to_remove = 0
    /\ ids_to_apply = {}
    /\ ids_to_ignore = {}
    /\ messages = 0
    /\ round_trips = 0
    /\ all_mismatch = TRUE
    /\ review_path = "none"
    /\ saved = <<>>
    /\ metrics = <<>>
    /\ skip_steps = FALSE
    /\ messages_at_entry = 0
    /\ first_reply_exact = FALSE
    /\ apply_diff_calls = 0
    /\ syntax_error = FALSE

patchFrame == <<file_name, file_content, proposed, content, new_content, hunks, i,
                messages_to_remove, ids_to_apply, ids_to_ignore, messages,
                round_trips, all_mismatch, review_path, saved, metrics, skip_steps,
                selected, crafted, revert, messages_at_entry, first_reply_exact,
                apply_diff_calls, syntax_error>>

\* apply_diff builds the document and calls _apply_patch, which splits the
\* lines and skips the file-name lines
ApplyPatchEnter ==
    /\ pc = "apply_diff"
    /\ ap' = ApStart(PatchLines)
    /\ pc' = "patching"
    /\ UNCHANGED <<patchFrame, result, events>>

\* one pass of the hunk loop
ApplyPatchHunk ==
    /\ pc = "patching"
    /\ ap.status = "run"
    /\ \E patch_lines \in {PatchLines} :
          /\ ap.index_original < Len(patch_lines)
          /\ ap' = ApHunk(OriginalLines, patch_lines, revert, ap)
    /\ UNCHANGED <<pc, patchFrame, result, events>>

\* the hunk loop is over: _apply_patch returns
ApplyPatchFinish ==
    /\ pc = "patching"
    /\ ap.status = "run"
    /\ ap.index_original >= Len(PatchLines)
    /\ ap' = ApFinish(OriginalLines, ap)
    /\ UNCHANGED <<pc, patchFrame, result, events>>

\* apply_diff returns the patched content
ApplyDiffReturn ==
    /\ pc = "patching"
    /\ ap.status = "ok"
    /\ result' = ap.updated_text
    /\ pc' = "returned"
    /\ UNCHANGED <<patchFrame, ap, events>>

\* the exception handler of apply_diff
ApplyDiffExceptMutReraise ==
    /\ pc = "patching"
    /\ ap.status = "error"
    /\ pc' = "raised"
    /\ UNCHANGED <<patchFrame, ap, result, events>>

ApplyDiffExcept ==
    /\ pc = "patching"
    /\ ap.status = "error"
    /\ events' = Append(events, "patch-apply-error")
    /\ result' = new_content
    /\ pc' = "returned"
    /\ UNCHANGED <<patchFrame, ap>>

PatchNext ==
    \/ ApplyPatchEnter
    \/ ApplyPatchHunk
    \/ ApplyPatchFinish
    \/ ApplyDiffReturn
    \/ ApplyDiffExcept

SpecPatch == PatchInit /\ [][PatchNext]_vars

(***************************************************************************)
(* _apply_patch called with revert=True on the patch of all the hunks      *)
(***************************************************************************)
\* file_content is the argument original, the newer content; new_content is
\* the older content the hunks were made from
RevertInit ==
    /\ pc = "apply_patch"
    /\ file_name = FilePy
    /\ \E pair \in ContentPairs \cup CrPairs :
          /\ new_content = pair[1]
          /\ file_content = pair[2]
          /\ hunks = get_diff_hunks(FilePy, pair[1], pair[2])
    /\ selected = {}
    /\ crafted = FALSE
    /\ revert = TRUE
    /\ ap = ApIdle
    /\ result = None
    /\ events = <<>>
    /\ proposed = <<>>
    /\ content = <<>>
    /\ i = 0
    /\ messages_to_remove = 0
    /\ ids_to_apply = {}
    /\ ids_to_ignore = {}
    /\ messages = 0
    /\ round_trips = 0
    /\ all_mismatch = TRUE
    /\ review_path = "none"
    /\ saved = <<>>
    /\ metrics = <<>>
    /\ skip_steps = FALSE
    /\ messages_at_entry = 0
    /\ first_reply_exact = FALSE
    /\ apply_diff_calls = 0
    /\ syntax_error = FALSE

\* _apply_patch splits the lines and skips the file-name lines
RevertEnter ==
    /\ pc = "apply_patch"
    /\ ap' = ApStart(PatchLines)
    /\ pc' = "patching"
    /\ UNCHANGED <<patchFrame, result, events>>

RevertNext ==
    \/ RevertEnter
    \/ ApplyPatchHunk
    \/ ApplyPatchFinish

SpecRevert == RevertInit /\ [][RevertNext]_vars

(***************************************************************************)
(* get_diff_hunks on its own, one pass of its loop at a time               *)
(***************************************************************************)
MaxHunks == 9

\* a content of n lines c, GapLines unchanged lines between neighbours
LongContent(c, n) == Concat(Spread([k \in 1..n |-> LineOf(c)]))

\* pairs of contents that differ in 3 to MaxHunks places far apart
ManyHunkPairs == {<<LongContent("a", n), LongContent("b", n)>> : n \in 3..MaxHunks}

\* diff_gen, as a list
DiffGen(fname, old_content, new) ==
    unified_diff(splitlines_keepends(old_content), splitlines_keepends(new),
                 <<"o", "l", "d", "_">> \o fname, <<"t", "o", "_">> \o fname)

DiffInit ==
    /\ pc = "get_diff_hunks"
    /\ file_name = FilePy
    /\ \E pair \in ContentPairs \cup ManyHunkPairs :
          /\ file_content = pair[1]
          /\ new_content = pair[2]
    /\ hunks = <<>>
    /\ result = <<>>
    /\ i = 0
    /\ selected = {}
    /\ crafted = FALSE
    /\ revert = FALSE
    /\ ap = ApIdle
    /\ events = <<>>
    /\ proposed = <<>>
    /\ content = <<>>
    /\ messages_to_remove = 0
    /\ ids_to_apply = {}
    /\ ids_to_ignore = {}
    /\ messages = 0
    /\ round_trips = 0
    /\ all_mismatch = TRUE
    /\ review_path = "none"
    /\ saved = <<>>
    /\ metrics = <<>>
    /\ skip_steps = FALSE
    /\ messages_at_entry = 0
    /\ first_reply_exact = FALSE
    /\ apply_diff_calls = 0
    /\ syntax_error = FALSE

diffFrame == <<file_name, file_content, proposed, content, new_content,
               messages_to_remove, ids_to_apply, ids_to_ignore, messages,
               round_trips, all_mismatch, review_path, saved, metrics, events,
               skip_steps, selected, crafted, revert, ap, messages_at_entry,
               first_reply_exact, apply_diff_calls, syntax_error>>

\* the diff is made, joined and split; the variable hunks holds the pieces
DiffSplit ==
    /\ pc = "get_diff_hunks"
    /\ hunks' = re_split(<<NL, "@", "@">>,
                         Concat(DiffGen(file_name, file_content, new_content)),
                         RE_MULTILINE)
    /\ result' = <<>>
    /\ i' = 0
    /\ pc' = "hunk_loop"
    /\ UNCHANGED diffFrame

\* the pass of the loop for the first piece, the file names
DiffLoopSkip ==
    /\ pc = "hunk_loop"
    /\ i < Len(hunks)
    /\ i = 0
    /\ i' = i + 1
    /\ UNCHANGED <<pc, hunks, result, diffFrame>>

\* a pass of the loop for any other piece
DiffLoopAppend ==
    /\ pc = "hunk_loop"
    /\ i < Len(hunks)
    /\ i # 0
    /\ result' = Append(result, HunkText(hunks[i + 1]))
    /\ i' = i + 1
    /\ UNCHANGED <<pc, hunks, diffFrame>>

DiffReturn ==
    /\ pc = "hunk_loop"
    /\ i = Len(hunks)
    /\ pc' = "hunks_returned"
    /\ UNCHANGED <<hunks, result, i, diffFrame>>

DiffNext ==
    \/ DiffSplit
    \/ DiffLoopSkip
    \/ DiffLoopAppend
    \/ DiffReturn

SpecDiff == DiffInit /\ [][DiffNext]_vars

(***************************************************************************)
(* Properties                                                              *)
(***************************************************************************)
\* the hunks get_diff_hunks gives for the two contents of the state
AllHunks == get_diff_hunks(file_name, file_content, new_content)

NewLines == splitlines_keepends(new_content)

\* the opcode groups behind the hunks, one group per hunk
DiffGroups == get_grouped_opcodes(OriginalLines, NewLines)

OldFrom(groups, k) == groups[k][1].i1
OldTo(groups, k) == groups[k][Len(groups[k])].i2
NewFrom(groups, k) == groups[k][1].j1
NewTo(groups, k) == groups[k][Len(groups[k])].j2

\* the members of a set of numbers in ascending order
RECURSIVE Ascending(_)
Ascending(S) ==
    IF S = {} THEN <<>> ELSE <<Min(S)>> \o Ascending(S \ {Min(S)})

\* the stretches of the original outside the old-side spans of the hunks sel
RECURSIVE UntouchedStretches(_, _, _, _)
UntouchedStretches(lines, groups, sel, cursor) ==
    IF sel = <<>> THEN <<Concat(SliceFrom(lines, cursor))>>
    ELSE <<Concat(Slice(lines, cursor, OldFrom(groups, Head(sel))))>>
         \o UntouchedStretches(lines, groups, Tail(sel), OldTo(groups, Head(sel)))

\* text is the stretches in their order with some text in front of each
RECURSIVE Threaded(_, _)
Threaded(text, stretches) ==
    IF Len(stretches) = 1
    THEN Len(text) >= Len(stretches[1])
         /\ SubSeq(text, Len(text) - Len(stretches[1]) + 1, Len(text)) = stretches[1]
    ELSE \E p \in 0..(Len(text) - Len(stretches[1])) :
            /\ SubSeq(text, p + 1, p + Len(stretches[1])) = stretches[1]
            /\ Threaded(SubSeq(text, p + Len(stretches[1]) + 1, Len(text)),
                        Tail(stretches))

\* text keeps every untouched stretch, unchanged and in order; only what
\* lies between them is replaced
KeepsUntouched(text, stretches) ==
    IF Len(stretches) = 1 THEN text = stretches[1]
    ELSE /\ StartsWith(text, stretches[1])
         /\ Threaded(SubSeq(text, Len(stretches[1]) + 1, Len(text)), Tail(stretches))

\* the original with the old-side span of every hunk of sel replaced by the
\* new-side lines of that hunk
RECURSIVE WithSpansReplaced(_, _, _, _, _)
WithSpansReplaced(old_lines, new_lines, groups, sel, cursor) ==
    IF sel = <<>> THEN Concat(SliceFrom(old_lines, cursor))
    ELSE Concat(Slice(old_lines, cursor, OldFrom(groups, Head(sel))))
         \o Concat(Slice(new_lines, NewFrom(groups, Head(sel)), NewTo(groups, Head(sel))))
         \o WithSpansReplaced(old_lines, new_lines, groups, Tail(sel),
                              OldTo(groups, Head(sel)))

EolTerminated(c) == c = <<>> \/ c[Len(c)] = NL

\* every line of c ends with "\n" and c holds no "\r"
PlainLines(c) == EolTerminated(c) /\ \A k \in 1..Len(c) : c[k] # CR

PatchCallOver == ap.status \in {"ok", "error"}

\* C1: round trip. When apply_diff is given all the hunks of
\* get_diff_hunks(A, B), _apply_patch returns, and what it returns is B, the
\* line end at the end of the file included.
C1_RoundTrip ==
    (~crafted /\ PatchCallOver /\ hunks = AllHunks)
        => (ap.status = "ok" /\ ap.updated_text = new_content)

\* C2: retry exhaustion. When every reply of the reviewer has a coverage
\* other than the number of hunks, review_change returns the full new
\* content after exactly 3 round trips.
C2_RetryExhaustion ==
    (review_path = "exhausted" /\ all_mismatch)
        => (content = new_content /\ round_trips = 3)

ReviewReconciled == review_path \in {"all_apply", "all_ignore", "partial"}

\* C3: when the retry loop is left because the coverage equals the number
\* of hunks N, the applied and the ignored indices together are exactly
\* 0..N-1: every hunk has a decision and no decision is out of range.
C3_CoverageIsExact ==
    ReviewReconciled
        => (ids_to_apply \cup ids_to_ignore = 0..(Len(hunks) - 1))

\* C4: without a formatter for the extension format_file hands the proposed
\* content on unchanged, and a proposed content that differs from the
\* original is reviewed and saved.
C4_NoFormatterIsNoOp ==
    (~HasFormatter(file_name) /\ HasChanges(proposed, file_content)
     /\ file_content # Bytes)
        => /\ pc = "review" => content = proposed
           /\ pc = "done" => (review_path # "none" /\ saved # <<>>)

\* C5 as stated: the final content is saved and the line delta recorded
\* exactly when the final content differs from the original, the empty
\* content included.
C5_SavedIffDiffers ==
    pc = "done"
        => IF content # file_content
           THEN /\ saved = <<content>>
                /\ metrics = <<DeltaLines(content, file_content)>>
           ELSE saved = <<>> /\ metrics = <<>>

\* C5 as amended: save_file is called, once and with the final content,
\* exactly when the final content is non-empty (not "" and not None) and
\* differs from the original; the line delta is recorded exactly when, in
\* addition, project.skip_steps is false. Nothing is saved or recorded
\* before the end of implement_code_changes.
C5_SavedIffNonEmptyAndDiffers ==
    IF pc = "done"
    THEN IF Truthy(content) /\ content # file_content
         THEN /\ saved = <<content>>
              /\ metrics = (IF skip_steps THEN <<>>
                            ELSE <<DeltaLines(content, file_content)>>)
         ELSE saved = <<>> /\ metrics = <<>>
    ELSE saved = <<>> /\ metrics = <<>>

C5_Witness ==
    /\ pc = "done"
    /\ Truthy(content)
    /\ content # file_content
    /\ saved = <<content>>
    /\ ~skip_steps
    /\ metrics = <<DeltaLines(content, file_content)>>

HunkHeader(h) == PATCH_HEADER_PATTERN(splitlines_keepends(h \o <<NL>>)[1])

\* C7: a hunk whose header oldStart exceeds the number of lines of the
\* original is never applied, whatever its length field: a patch holding
\* such a hunk is refused.
C7_RejectsStartPastEnd ==
    ap.status = "ok"
        => \A k \in 1..Len(hunks) :
              HunkHeader(hunks[k]).ok
                  => StrToInt(HunkHeader(hunks[k]).g1) <= Len(OriginalLines)

\* the header the hunk loop is at
HeaderAtCursor == PATCH_HEADER_PATTERN(PatchLines[ap.index_original + 1])

AtHunkHeader ==
    /\ pc = "patching"
    /\ ap.index_original < Len(PatchLines)
    /\ HeaderAtCursor.ok

\* C8: start_line never moves backward, and a hunk whose target line is
\* before start_line makes _apply_patch raise, with nothing added to the
\* output.
C8_CursorNeverBackward ==
    [][ /\ ap'.start_line >= ap.start_line
        /\ (ap.status = "run" /\ AtHunkHeader
            /\ HeaderLineNumber(HeaderAtCursor, revert) < ap.start_line)
              => (ap'.status = "error" /\ ap'.updated_text = ap.updated_text) ]_vars

C8_Witness ==
    /\ ap.status = "error"
    /\ AtHunkHeader
    /\ HeaderLineNumber(HeaderAtCursor, revert) < ap.start_line
    /\ HeaderLineNumber(HeaderAtCursor, revert) <= Len(OriginalLines)

\* C9: apply_diff never lets a failure of _apply_patch out. When
\* _apply_patch raised, apply_diff returns the fallback and records the
\* patch-apply-error event; otherwise it returns the patched content and
\* records nothing.
C9_ApplyDiffNeverRaises ==
    /\ pc # "raised"
    /\ pc = "returned"
          => IF ap.status = "error"
             THEN result = new_content /\ events = <<"patch-apply-error">>
             ELSE ap.status = "ok" /\ result = ap.updated_text /\ events = <<>>

C9_Witness ==
    /\ pc = "returned"
    /\ crafted
    /\ ap.status = "error"
    /\ result = new_content
    /\ events = <<"patch-apply-error">>

\* C10: all-ignore override. When the reconciled decisions mark every one of
\* the N hunks as ignore, review_change returns the full new content, not
\* the old one, and records the reject-all event.
C10_AllIgnoreOverride ==
    (ReviewReconciled /\ ids_to_apply = {}
     /\ ids_to_ignore = 0..(Len(hunks) - 1))
        => /\ review_path = "all_ignore"
           /\ content = new_content
           /\ content # file_content
           /\ events = <<"modify-file-review-reject-all">>

C10_Witness ==
    /\ review_path = "all_ignore"
    /\ Len(hunks) = 2
    /\ ids_to_apply = {}
    /\ ids_to_ignore = {0, 1}
    /\ content = new_content

\* C11: all-apply shortcut. When the reconciled decisions mark every one of
\* the N hunks as apply, review_change returns the full new content by the
\* first branch, and apply_diff (and with it _apply_patch) is not called.
C11_AllApplyShortcut ==
    (ReviewReconciled /\ ids_to_apply = 0..(Len(hunks) - 1))
        => /\ review_path = "all_apply"
           /\ content = new_content
           /\ apply_diff_calls = 0
           /\ events = <<>>

C11_Witness ==
    /\ review_path = "all_apply"
    /\ Len(hunks) = 2
    /\ ids_to_apply = {0, 1}
    /\ ids_to_ignore = {}
    /\ content = new_content
    /\ apply_diff_calls = 0

\* C12: first-attempt reconciliation. When the first reply of the reviewer
\* gives each hunk number 1..N exactly one decision of apply or ignore, in
\* any case of letters and with any split, the loop is left in its first
\* pass: no retry is sent and there is exactly one round trip.
C12_FirstAttemptReconciles ==
    first_reply_exact
        => /\ ReviewReconciled
           /\ i = 0
           /\ round_trips = 1
           /\ messages_to_remove = 2
           /\ ids_to_apply \cup ids_to_ignore = 0..(Len(hunks) - 1)

C12_Witness ==
    /\ first_reply_exact
    /\ Len(hunks) = 2
    /\ ids_to_apply = {0}
    /\ ids_to_ignore = {1}
    /\ round_trips = 1
    /\ review_path = "partial"

\* C13: in every reply that is accepted as complete, the applied and the
\* ignored indices are disjoint: no hunk index is in both ids_to_apply and
\* ids_to_ignore.
C13_ApplyIgnoreDisjoint ==
    ReviewReconciled => ids_to_apply \cap ids_to_ignore = {}

\* C14: history pruning. While review_change waits for a reply the
\* conversation holds one request/reply pair per request sent; on every
\* return of review_change (all-apply, all-ignore, partial apply with or
\* without the fallback of apply_diff, retry exhaustion) exactly these
\* messages have been removed, so the conversation is as long as it was when
\* review_change was entered.
C14_HistoryPruned ==
    /\ pc = "review_wait"
          => /\ messages_to_remove = 2 * round_trips
             /\ messages = messages_at_entry + messages_to_remove
    /\ review_path # "none"
          => /\ messages_to_remove = 2 * round_trips
             /\ messages = messages_at_entry

C14_Witness ==
    /\ review_path = "partial"
    /\ round_trips = 3
    /\ messages_to_remove = 6
    /\ messages_at_entry = 2
    /\ messages = 2

\* C15: idempotence. get_diff_hunks(A, A) is the empty list for every
\* content A, and apply_diff on A with an empty list of hunks returns A
\* unchanged, by the normal return and not by the fallback.
C15_Idempotent ==
    /\ (~crafted /\ new_content = file_content)
          => (AllHunks = <<>> /\ hunks = <<>>)
    /\ (hunks = <<>> /\ pc = "returned")
          => /\ ap.status = "ok"
             /\ result = file_content
             /\ events = <<>>

C15_Witness ==
    /\ pc = "returned"
    /\ ~crafted
    /\ new_content = file_content
    /\ file_content # <<>>
    /\ ~EolTerminated(file_content)
    /\ hunks = <<>>
    /\ result = file_content
    /\ events = <<>>

\* C16: when the formatter reports a syntax error for the proposed content,
\* implement_code_changes ends there with the error raised by format_file:
\* the reviewer is not asked, nothing is saved and no metric is recorded.
C16_FormatErrorAborts ==
    syntax_error
        => /\ pc = "format_error"
           /\ round_trips = 0
           /\ review_path = "none"
           /\ saved = <<>>
           /\ metrics = <<>>

C16_Witness ==
    /\ syntax_error
    /\ pc = "format_error"
    /\ HasChanges(proposed, file_content)
    /\ file_name = FilePy
    /\ saved = <<>>

\* C17: binary guard. Whichever way get_original_file obtains the original
\* content, the file list or the storage, a content that is bytes is
\* replaced by the placeholder: the change generator and get_diff_hunks never
\* get bytes.
C17_BinaryGuard ==
    /\ file_content # Bytes
    /\ pc # "type_error"

\* C18: the exhaustion fallback is taken only if no reply received during
\* the review had coverage equal to the number of hunks, the reply to the
\* last retry included: a reply with that coverage is always reconciled.
C18_ExhaustedOnlyWithoutCoverage ==
    review_path = "exhausted" => all_mismatch

\* the hunk header lines among lines
HeaderLines(lines) ==
    SelectSeq(lines, LAMBDA l : StartsWith(l, <<"@", "@">>))

\* the hunk header lines of the unified diff of the two contents
DiffHeaders == HeaderLines(DiffGen(file_name, file_content, new_content))

\* C19: get_diff_hunks returns one element per hunk header of the unified
\* diff, for any number of hunks: the result is as long as the diff has
\* header lines, and its k-th element has exactly one header line, the k-th
\* of the diff.
C19_OneElementPerHeader ==
    pc = "hunks_returned"
        => /\ Len(result) = Len(DiffHeaders)
           /\ \A k \in 1..Len(result) :
                 HeaderLines(splitlines(result[k])) = <<StripEol(DiffHeaders[k])>>

\* what the loop of get_diff_hunks builds is what the operator gives
DiffLoopIsGetDiffHunks ==
    pc = "hunks_returned"
        => result = get_diff_hunks(file_name, file_content, new_content)

\* C20: no veto. For contents that end with a line end and differ,
\* review_change never returns the old content, whatever the replies of the
\* reviewer are and however many retries there are.
C20_NoVeto ==
    (review_path # "none"
     /\ EolTerminated(file_content) /\ EolTerminated(new_content))
        => content # file_content

\* the same for contents whose lines all end with "\n" and hold no "\r"
NoVetoPlain ==
    (review_path # "none"
     /\ PlainLines(file_content) /\ PlainLines(new_content))
        => content # file_content

\* C21: revert round trip. For contents A and B that end with a line end
\* and the patch of all the hunks of get_diff_hunks(A, B),
\* _apply_patch(B, patch, revert=True) returns, and what it returns is A.
C21_RevertRoundTrip ==
    (revert /\ PatchCallOver
     /\ EolTerminated(file_content) /\ EolTerminated(new_content))
        => (ap.status = "ok" /\ ap.updated_text = new_content)

\* the same for contents whose lines all end with "\n" and hold no "\r"
RevertRoundTripPlain ==
    (revert /\ PatchCallOver
     /\ PlainLines(file_content) /\ PlainLines(new_content))
        => (ap.status = "ok" /\ ap.updated_text = new_content)
====
